---- MODULE Spec2Model ----
(***************************************************************************)
(* Insightify: the dashboard (app.py) and the enricher (transform.py).     *)
(*                                                                         *)
(* A table (pandas DataFrame) is a record [cols, rows]: the set of its     *)
(* column names and the sequence of its rows, each row a record over the   *)
(* columns.  A Series indexed by year is a sequence of [idx, val] records  *)
(* in index order.  Amounts are integers; a float the code computes is a   *)
(* binary64 value, bit for bit, until it is formatted.                     *)
(***************************************************************************)
EXTENDS Integers, Sequences, FiniteSets, TLC

VARIABLES
    argDf,      \* get_per_year_change: the table it is called with
    argCol,     \* get_per_year_change: <<col, metric>> of the call, <<>> before it
    grpOut,     \* get_per_year_change: the Series it returned
    orders,     \* transform.py: the Orders sheet, a sequence of rows
    people,     \* transform.py: the People sheet, rows <<Region, Regional Manager>>
    returned,   \* transform.py: the Returns sheet's Order ID column
    existing,   \* transform.py: dataset/superstore_enriched.xlsx before the run
    outFile,    \* transform.py: dataset/superstore_enriched.xlsx now
    enrichPc,   \* transform.py: "start", "done" or "KeyError"
    storage,    \* app.py: the table in dataset/superstore_enriched.xlsx
    cache,      \* app.py: st.cache_data's entry for load_data
    now,        \* app.py: the clock, in seconds
    selected,   \* app.py: the sidebar's selection of the last pass
    dfOriginal, \* app.py: main's df_original at the end of the last pass
    dfFiltered, \* app.py: what filter_data returned in the last pass
    dfEnd,      \* app.py: main's df at the end of the last pass
    lastLoad,   \* app.py: how load_data was answered in the last pass
    calls,      \* app.py: the functions the last pass ran, in order
    rendered,   \* app.py: the panels the last pass put on the page, with their data
    failure     \* app.py: the panel the last pass died in, and the exception

deltaVars == <<argDf, argCol, grpOut>>

enrichVars == <<orders, people, returned, existing, outFile, enrichPc>>

dashVars ==
    <<storage, cache, now, selected, dfOriginal, dfFiltered, dfEnd, lastLoad, calls, rendered, failure>>

vars ==
    <<argDf, argCol, grpOut, orders, people, returned, existing, outFile, enrichPc,
      storage, cache, now, selected, dfOriginal, dfFiltered, dfEnd, lastLoad, calls, rendered, failure>>

----------------------------------------------------------------------------
(* Bounds of the model. *)

MaxDeltaRows == 3

MaxOrders == 2

MaxRows == 2

MaxTicks == 3

MaxPeople == 2

MaxReturns == 2

----------------------------------------------------------------------------
(* Helpers on sets and sequences. *)

Abs(x) == IF x < 0 THEN -x ELSE x

SetMin(S) == CHOOSE x \in S : \A y \in S : x <= y

RECURSIVE SortedSeq(_)
\* sorted(...) of a set of integers, ascending
SortedSeq(S) ==
    IF S = {} THEN <<>>
    ELSE <<SetMin(S)>> \o SortedSeq(S \ {SetMin(S)})

RECURSIVE SumSeq(_)
SumSeq(s) == IF s = <<>> THEN 0 ELSE Head(s) + SumSeq(Tail(s))

SeqsUpTo(S, n) == UNION {[1..k -> S] : k \in 0..n}

\* The value a column holds when the cell is empty (NaN / None in pandas).
Null == "<null>"

----------------------------------------------------------------------------
(* Floats as the code produces them: IEEE 754 binary64.  A finite non-zero *)
(* double is its sign, its 53 significand bits (most significant first,    *)
(* the first one 1) and the exponent e of the first bit: the value is the  *)
(* sum of m[i] * 2^(e - i + 1).  Zero has no bits.  Every operation rounds *)
(* its exact result to the nearest double, ties to even.  The integers fed *)
(* in are below 2^29 in magnitude.                                         *)

Precision == 53

Dbl(neg, m, e) == [kind |-> "num", neg |-> neg, m |-> m, e |-> e]
FloatZero(neg) == [kind |-> "num", neg |-> neg, m |-> <<>>, e |-> 0]
Inf(neg)       == [kind |-> "inf", neg |-> neg, m |-> <<>>, e |-> 0]
NaN            == [kind |-> "nan", neg |-> FALSE, m |-> <<>>, e |-> 0]

Zeros(k) == [i \in 1..k |-> 0]

SetMax(S) == CHOOSE x \in S : \A y \in S : y <= x

RECURSIVE BitsToInt(_)
\* the integer a bit string writes
BitsToInt(bits) ==
    IF bits = <<>> THEN 0
    ELSE 2 * BitsToInt(SubSeq(bits, 1, Len(bits) - 1)) + bits[Len(bits)]

RECURSIVE IntToBits(_)
\* the bit string of a positive integer, without leading zeros
IntToBits(n) == IF n = 0 THEN <<>> ELSE IntToBits(n \div 2) \o <<n % 2>>

\* the w-bit string of n, for 0 <= n < 2^w
Bits(n, w) == [i \in 1..w |-> (n \div 2^(w - i)) % 2]

\* bits + 1 in the last place, for a string that is not all ones
Increment(bits) ==
    LET z == SetMax({i \in DOMAIN bits : bits[i] = 0})
    IN  [i \in DOMAIN bits |-> IF i < z THEN bits[i] ELSE IF i = z THEN 1 ELSE 0]

\* The double nearest to the exact value written by bits (first bit 1, of
\* weight 2^e) plus, when sticky, something below its last place.
Round53(neg, bits, e, sticky) ==
    IF Len(bits) <= Precision
    THEN Dbl(neg, bits \o Zeros(Precision - Len(bits)), e)
    ELSE LET keep == SubSeq(bits, 1, Precision)
             rest == sticky \/ \E i \in (Precision + 2)..Len(bits) : bits[i] = 1
             up   == bits[Precision + 1] = 1 /\ (rest \/ keep[Precision] = 1)
         IN  IF ~up THEN Dbl(neg, keep, e)
             ELSE IF \A i \in DOMAIN keep : keep[i] = 1
             THEN Dbl(neg, <<1>> \o Zeros(Precision - 1), e + 1)
             ELSE Dbl(neg, Increment(keep), e)

\* The same for a string that may start with zeros (its first bit of weight 2^e).
RoundNorm(neg, bits, e) ==
    IF \A i \in DOMAIN bits : bits[i] = 0 THEN FloatZero(FALSE)
    ELSE LET k == SetMin({i \in DOMAIN bits : bits[i] = 1})
         IN  Round53(neg, SubSeq(bits, k, Len(bits)), e - (k - 1), FALSE)

RECURSIVE DivBits(_, _, _, _)
\* the next k bits of the binary expansion of r / den, for r < den, taken w
\* bits at a time
DivBits(r, den, k, w) ==
    IF k = 0 THEN <<>>
    ELSE IF k < w THEN DivBits(r, den, k, k)
    ELSE Bits((r * 2^w) \div den, w) \o DivBits((r * 2^w) % den, den, k - w, w)

RECURSIVE DivRem(_, _, _, _)
\* the remainder left after those k bits
DivRem(r, den, k, w) ==
    IF k = 0 THEN r
    ELSE IF k < w THEN DivRem(r, den, k, k)
    ELSE DivRem((r * 2^w) % den, den, k - w, w)

\* num / den for 1 <= num / den < 2, scaled by 2^e, w quotient bits a step
DivRound(neg, num, den, e, w) ==
    Round53(neg, <<1>> \o DivBits(num - den, den, Precision, w), e,
            DivRem(num - den, den, Precision, w) # 0)

\* a / b for positive integers, where 2^e <= a / b < 2^(e + 1); a step takes
\* as many bits as keep r * 2^w an integer of the model
DivScaled(neg, a, b, e) ==
    IF e >= 0 THEN DivRound(neg, a, b * 2^e, e, 30 - Len(IntToBits(b * 2^e)))
    ELSE DivRound(neg, a * 2^(-e), b, e, 30 - Len(IntToBits(b)))

\* x / y for integer-valued floats x, y (IEEE: y = 0 gives inf, -inf or nan)
FloatDiv(x, y) ==
    IF y = 0 THEN (IF x = 0 THEN NaN ELSE Inf(x < 0))
    ELSE IF x = 0 THEN FloatZero(y < 0)
    ELSE DivScaled((x < 0) # (y < 0), Abs(x), Abs(y),
                   IF Abs(x) >= Abs(y) THEN Len(IntToBits(Abs(x) \div Abs(y))) - 1
                   ELSE -Len(IntToBits((Abs(y) + Abs(x) - 1) \div Abs(x) - 1)))

\* m with the bits b..i0 replaced: bit b by v, the bits after it by 1 - v
Ripple(m, b, i0, v) ==
    [i \in DOMAIN m |-> IF i < b \/ i > i0 THEN m[i] ELSE IF i = b THEN v ELSE 1 - v]

\* 1 - 0.frac: the two's complement, every bit above the last 1 inverted
Complement(frac, last) ==
    [j \in DOMAIN frac |-> IF j < last THEN 1 - frac[j] ELSE frac[j]]

\* f - 1
FloatMinusOne(f) ==
    IF f.kind # "num" THEN f
    ELSE IF f.m = <<>> THEN Dbl(TRUE, <<1>> \o Zeros(Precision - 1), 0)
    ELSE IF f.e >= 0 /\ ~f.neg
    THEN \* f >= 1: take one unit out of the bit of weight 2^0, borrowing upward
         RoundNorm(FALSE,
                   Ripple(f.m, SetMax({i \in 1..(f.e + 1) : f.m[i] = 1}), f.e + 1, 0),
                   f.e)
    ELSE IF f.e >= 0
    THEN \* f <= -1: -(|f| + 1), carrying upward from the bit of weight 2^0
         IF \A i \in 1..(f.e + 1) : f.m[i] = 1
         THEN Round53(TRUE,
                      <<1>> \o Zeros(f.e + 1) \o SubSeq(f.m, f.e + 2, Precision),
                      f.e + 1, FALSE)
         ELSE Dbl(TRUE,
                  Ripple(f.m, SetMax({i \in 1..(f.e + 1) : f.m[i] = 0}), f.e + 1, 1),
                  f.e)
    ELSE IF f.neg
    THEN \* -1 < f < 0: -(1 + |f|)
         Round53(TRUE, <<1>> \o Zeros(-f.e - 1) \o f.m, 0, FALSE)
    ELSE \* 0 < f < 1: -(1 - f)
         RoundNorm(TRUE,
                   Complement(Zeros(-f.e - 1) \o f.m, -f.e - 1 + SetMax({j \in DOMAIN f.m : f.m[j] = 1})),
                   -1)

RECURSIVE MulSmall(_, _, _)
\* head * 2^20 * c + v, the last twenty bits coming from v
MulStep(head, c, v) == MulSmall(head, c, v \div 2^20) \o Bits(v % 2^20, 20)

\* bits * c + carry for c <= 100, as a bit string without leading zeros,
\* twenty bits at a time from the last
MulSmall(bits, c, carry) ==
    IF Len(bits) <= 20 THEN IntToBits(BitsToInt(bits) * c + carry)
    ELSE MulStep(SubSeq(bits, 1, Len(bits) - 20), c,
                 BitsToInt(SubSeq(bits, Len(bits) - 19, Len(bits))) * c + carry)

\* the double nearest to prod * 2^(e - 52), prod the exact product as a bit string
TimesRound(neg, prod, e) == Round53(neg, prod, e + (Len(prod) - Precision), FALSE)

\* f * 100
FloatTimes100(f) ==
    IF f.kind # "num" \/ f.m = <<>> THEN f
    ELSE TimesRound(f.neg, MulSmall(f.m, 100, 0), f.e)

\* pd.notnull(x): inf is not null
NotNull(f) == f.kind # "nan"

\* The tenths nearest to a value whose double, times 20, has the integer
\* part t2 (the tenths and the half) and, when beyond, something after the
\* binary point: ties to even.
TenthsOf(t2, beyond) ==
    IF t2 % 2 = 1 /\ (beyond \/ (t2 \div 2) % 2 = 1) THEN t2 \div 2 + 1 ELSE t2 \div 2

\* prod is 20 * |f| as a bit string, its first bit of weight 2^e: split it at
\* the binary point
TenthsAt(prod, e) ==
    IF e < 0 THEN TenthsOf(0, TRUE)
    ELSE IF e + 1 >= Len(prod)
    THEN TenthsOf(BitsToInt(prod \o Zeros(e + 1 - Len(prod))), FALSE)
    ELSE TenthsOf(BitsToInt(SubSeq(prod, 1, e + 1)),
                  \E i \in (e + 2)..Len(prod) : prod[i] = 1)

\* The tenths nearest to the exact value of |f|, ties to even: the digits
\* '%.1f' prints for a double (below 10^8 in magnitude).
ScaledAt(prod, fe) == TenthsAt(prod, fe + (Len(prod) - Precision))

RoundTenths(f) == IF f.m = <<>> THEN 0 ELSE ScaledAt(MulSmall(f.m, 20, 0), f.e)

\* the sign, the units, the point and the tenth
WriteTenths(neg, t) ==
    (IF neg THEN "-" ELSE "") \o ToString(t \div 10) \o "." \o ToString(t % 10)

\* f"{x:.1f}"
FormatF1(f) ==
    IF f.kind = "nan" THEN "nan"
    ELSE IF f.kind = "inf" THEN (IF f.neg THEN "-inf" ELSE "inf")
    ELSE WriteTenths(f.neg, RoundTenths(f))

----------------------------------------------------------------------------
(* get_per_year_change *)

\* df.groupby('year'): the years present, ascending
GroupYears(df) == SortedSeq({df.rows[i].year : i \in DOMAIN df.rows})

RowsOfYear(df, y) == SelectSeq(df.rows, LAMBDA r : r.year = y)

\* [col].agg([metric])[metric] of one group: 'sum' adds the values, 'count'
\* counts the non-null ones
Metric(col, rows, metric) ==
    IF metric = "sum"
    THEN SumSeq([i \in DOMAIN rows |-> rows[i][col]])
    ELSE Len(SelectSeq(rows, LAMBDA r : r[col] # Null))

GroupAgg(col, df, metric) ==
    LET ys == GroupYears(df)
    IN  [i \in DOMAIN ys |->
            [idx |-> ys[i], val |-> Metric(col, RowsOfYear(df, ys[i]), metric)]]

\* A faulty pct_change: every entry compared with the first one.
PctChangeMutPrev(s) ==
    [i \in DOMAIN s |->
        [idx |-> s[i].idx,
         val |-> IF i = 1 THEN NaN
                 ELSE FloatMinusOne(FloatDiv(s[i].val, s[1].val))]]

\* Series.pct_change(): v[i] / v[i-1] - 1, NaN for the first entry
PctChange(s) ==
    [i \in DOMAIN s |->
        [idx |-> s[i].idx,
         val |-> IF i = 1 THEN NaN
                 ELSE FloatMinusOne(FloatDiv(s[i].val, s[i - 1].val))]]

SeriesTimes100(s) ==
    [i \in DOMAIN s |-> [idx |-> s[i].idx, val |-> FloatTimes100(s[i].val)]]

\* A faulty fillna: the NaN entries are left in place.
FillNaMutKeep(s) == s

\* Series.fillna(0)
FillNa0(s) ==
    [i \in DOMAIN s |->
        [idx |-> s[i].idx,
         val |-> IF s[i].val.kind = "nan" THEN FloatZero(FALSE) ELSE s[i].val]]

\* lambda x: f"{x:.1f}%" if pd.notnull(x) else 'NaN'
FormatEntry(x) == IF NotNull(x) THEN FormatF1(x) \o "%" ELSE "NaN"

get_per_year_change(col, df, metric) ==
    LET grp_years == FillNa0(SeriesTimes100(PctChange(GroupAgg(col, df, metric))))
    IN  [i \in DOMAIN grp_years |->
            [idx |-> grp_years[i].idx, val |-> FormatEntry(grp_years[i].val)]]

----------------------------------------------------------------------------
(* Series access *)

SeriesIndex(s) == {s[i].idx : i \in DOMAIN s}

\* Series.get(key, default)
SeriesGet(s, key, default) ==
    IF key \in SeriesIndex(s)
    THEN (CHOOSE e \in {s[i] : i \in DOMAIN s} : e.idx = key).val
    ELSE default

----------------------------------------------------------------------------
(* app.py: constants *)

CUSTOM_COLORS ==
    ("Furniture" :> "#005C53") @@ ("Office Supplies" :> "#9FC131")
        @@ ("Technology" :> "#042940")

MONTHS ==
    <<"Jan", "Feb", "Mar", "Apr", "May", "Jun", "Jul", "Aug", "Sep", "Oct", "Nov", "Dec">>

\* create_order_distribution_chart's color_palette
RegionPalette ==
    [West |-> "#005C53", East |-> "#9FC131", Central |-> "#DBF227", South |-> "#D6FF79"]

\* create_monthly_sales_trend's color_palette
YearPalette ==
    [y \in {2020, 2021, 2022, 2023} |->
        CASE y = 2020 -> "#005C53"
          [] y = 2021 -> "#9FC131"
          [] y = 2022 -> "#DBF227"
          [] y = 2023 -> "#D6FF79"]

TTL == 3600

----------------------------------------------------------------------------
(* app.py: load_data and its cache *)

\* df['year'] = pd.to_datetime(df['Order Date']).dt.year
WithYear(t) ==
    [cols |-> t.cols \cup {"year"},
     rows |-> [i \in DOMAIN t.rows |-> t.rows[i] @@ [year |-> t.rows[i].OrderDate.y]]]

\* The body of load_data: read the file, derive the year, compute the three
\* series.  (Ship Date and 'days to ship' feed only the gauge's needle and are
\* left out.)
load_data(file) ==
    LET t == WithYear(file)
    IN  [df              |-> t,
         grp_years_sales |-> get_per_year_change("Sales", t, "sum"),
         grp_year_profit |-> get_per_year_change("Profit", t, "sum"),
         grp_year_orders |-> get_per_year_change("OrderID", t, "count")]

NoEntry == [present |-> FALSE, at |-> 0, value |-> <<>>]

\* A faulty window: the comparison reversed.
MayServeMutReversed(entry, t) == {entry.present /\ t - entry.at > TTL}

\* @st.cache_data(ttl=3600): whether a cached entry of this age may be served.
\* The decorator fixes the length of the window; at the very instant the window
\* ends either answer is possible.
MayServe(entry, t) ==
    IF ~entry.present THEN {FALSE}
    ELSE IF t - entry.at < TTL THEN {TRUE}
    ELSE IF t - entry.at > TTL THEN {FALSE}
    ELSE BOOLEAN

----------------------------------------------------------------------------
(* app.py: the sidebar and the filter *)

SelAll == [all |-> TRUE, year |-> 0]

SelYear(y) == [all |-> FALSE, year |-> y]

\* create_sidebar: "All", then the sorted distinct years of the table
year_list(t) ==
    LET ys == SortedSeq({t.rows[i].year : i \in DOMAIN t.rows})
    IN  <<SelAll>> \o [i \in DOMAIN ys |-> SelYear(ys[i])]

\* A faulty filter: the rows from the selected year on.
filter_dataMutFrom(t, selected_year) ==
    IF ~selected_year.all
    THEN [t EXCEPT !.rows = SelectSeq(t.rows, LAMBDA r : r.year >= selected_year.year)]
    ELSE t

filter_data(t, selected_year) ==
    IF ~selected_year.all
    THEN [t EXCEPT !.rows = SelectSeq(t.rows, LAMBDA r : r.year = selected_year.year)]
    ELSE t

----------------------------------------------------------------------------
(* app.py: the panels *)

ColumnSum(t, col) == SumSeq([i \in DOMAIN t.rows |-> t.rows[i][col]])

\* Series.nunique(): the distinct non-null values
NUnique(t, col) == Cardinality({t.rows[i][col] : i \in DOMAIN t.rows} \ {Null})

\* filter_data returns the frame it was given when the selection is "All", and a
\* new frame otherwise
SameFrame(selected_year) == selected_year.all

\* A faulty lookup: a key that is never in the index, so always the fallback.
KpiChangeMutStrKey(series, selected_year) ==
    IF selected_year.all THEN series[Len(series)].val
    ELSE "0%"

\* create_kpi_metrics: the delta shown beside a total
KpiChange(series, selected_year) ==
    IF selected_year.all THEN series[Len(series)].val
    ELSE SeriesGet(series, selected_year.year, "0%")

create_kpi_metrics(t, loaded, selected_year) ==
    [total_sales   |-> ColumnSum(t, "Sales"),
     total_profit  |-> ColumnSum(t, "Profit"),
     total_orders  |-> NUnique(t, "OrderID"),
     sales_change  |-> KpiChange(loaded.grp_years_sales, selected_year),
     profit_change |-> KpiChange(loaded.grp_year_profit, selected_year),
     orders_change |-> KpiChange(loaded.grp_year_orders, selected_year)]

ValuesOf(t, col) == {t.rows[i][col] : i \in DOMAIN t.rows}

RowsWith(t, col, v) == SelectSeq(t.rows, LAMBDA r : r[col] = v)

\* create_category_performance_chart: one marker per category
create_category_performance_chart(t) ==
    [c \in ValuesOf(t, "Category") |->
        [x     |-> SumSeq([i \in DOMAIN RowsWith(t, "Category", c) |->
                              RowsWith(t, "Category", c)[i].Sales]),
         y     |-> SumSeq([i \in DOMAIN RowsWith(t, "Category", c) |->
                              RowsWith(t, "Category", c)[i].Profit]),
         count |-> Len(SelectSeq(RowsWith(t, "Category", c),
                                 LAMBDA r : r.OrderID # Null)),
         color |-> CUSTOM_COLORS[c]]]

\* create_order_distribution_chart: the ring of regions (the ring of segments
\* looks the same palette up again with the same keys)
create_order_distribution_chart(t) ==
    [r \in ValuesOf(t, "Region") |->
        [value |-> Len(RowsWith(t, "Region", r)), color |-> RegionPalette[r]]]

\* df['Month'] = ...strftime('%b'); df['Month_num'] = ...dt.month: assignments
\* to the frame the function was handed
AddMonthColumns(t) ==
    [cols |-> t.cols \cup {"Month", "Month_num"},
     rows |-> [i \in DOMAIN t.rows |->
                  [Month     |-> MONTHS[t.rows[i].OrderDate.m],
                   Month_num |-> t.rows[i].OrderDate.m] @@ t.rows[i]]]

\* color_palette.get(year, '#000000')
YearColor(year) == IF year \in DOMAIN YearPalette THEN YearPalette[year] ELSE "#000000"

\* create_monthly_sales_trend: one line per year
create_monthly_sales_trend(t) ==
    [y \in ValuesOf(t, "year") |->
        [sales |-> SumSeq([i \in DOMAIN RowsWith(t, "year", y) |->
                              RowsWith(t, "year", y)[i].Sales]),
         color |-> YearColor(y)]]

Panels ==
    <<"kpi", "category", "distribution", "monthly", "top_sales", "top_profit",
      "gauge", "sales_trend">>

\* The exception a panel's function raises on this table, "none" if it returns.
PanelError(p, t, loaded, selected_year) ==
    CASE p = "kpi" ->
            \* grp_years_sales.iloc[-1] of an empty Series
            IF selected_year.all /\ loaded.grp_years_sales = <<>>
            THEN "IndexError" ELSE "none"
      [] p = "category" ->
            \* CUSTOM_COLORS[category]
            IF \E c \in ValuesOf(t, "Category") : c \notin DOMAIN CUSTOM_COLORS
            THEN "KeyError" ELSE "none"
      [] p = "distribution" ->
            \* color_palette[region]
            IF \E r \in ValuesOf(t, "Region") : r \notin DOMAIN RegionPalette
            THEN "KeyError" ELSE "none"
      [] p = "gauge" ->
            \* int(np.round(nan)): the mean of no rows
            IF t.rows = <<>> THEN "ValueError" ELSE "none"
      [] OTHER -> "none"

\* The table a panel's function leaves behind.
PanelTable(p, t) == IF p = "monthly" THEN AddMonthColumns(t) ELSE t

\* What a panel draws.
PanelData(p, t, loaded, selected_year) ==
    CASE p = "kpi"          -> create_kpi_metrics(t, loaded, selected_year)
      [] p = "category"     -> create_category_performance_chart(t)
      [] p = "distribution" -> create_order_distribution_chart(t)
      [] p = "monthly"      -> create_monthly_sales_trend(AddMonthColumns(t))
      [] OTHER              -> <<>>

\* A pass that isolates its panels: one that raises is skipped and the rest go on.
RECURSIVE RunPanelsMutIsolate(_, _, _, _)
RunPanelsMutIsolate(ps, st, loaded, selected_year) ==
    IF ps = <<>> THEN st
    ELSE LET p   == Head(ps)
             err == PanelError(p, st.df, loaded, selected_year)
         IN  IF err # "none"
             THEN RunPanelsMutIsolate(Tail(ps),
                      [st EXCEPT !.calls = Append(@, p),
                                 !.failure = [at |-> p, error |-> err]],
                      loaded, selected_year)
             ELSE RunPanelsMutIsolate(Tail(ps),
                            [df       |-> PanelTable(p, st.df),
                             calls    |-> Append(st.calls, p),
                             rendered |-> Append(st.rendered,
                                 [panel |-> p,
                                  seen  |-> st.df,
                                  left  |-> PanelTable(p, st.df),
                                  data  |-> PanelData(p, st.df, loaded, selected_year)]),
                             failure  |-> st.failure],
                            loaded, selected_year)

\* main(), from the KPI cards on: the panels in order; an exception ends the pass.
RECURSIVE RunPanels(_, _, _, _)
RunPanels(ps, st, loaded, selected_year) ==
    IF ps = <<>> THEN st
    ELSE LET p   == Head(ps)
             err == PanelError(p, st.df, loaded, selected_year)
         IN  IF err # "none"
             THEN [st EXCEPT !.calls = Append(@, p),
                             !.failure = [at |-> p, error |-> err]]
             ELSE RunPanels(Tail(ps),
                            [df       |-> PanelTable(p, st.df),
                             calls    |-> Append(st.calls, p),
                             rendered |-> Append(st.rendered,
                                 [panel |-> p,
                                  seen  |-> st.df,
                                  left  |-> PanelTable(p, st.df),
                                  data  |-> PanelData(p, st.df, loaded, selected_year)]),
                             failure  |-> st.failure],
                            loaded, selected_year)

NoFailure == [at |-> "none", error |-> "none"]

\* Nothing has been rendered yet.
DashIdle ==
    /\ storage = [cols |-> {}, rows |-> <<>>]
    /\ cache = NoEntry
    /\ now = 0
    /\ selected = SelAll
    /\ dfOriginal = <<>>
    /\ dfFiltered = <<>>
    /\ dfEnd = <<>>
    /\ lastLoad = [read |-> FALSE, hadEntry |-> FALSE, age |-> 0, at |-> 0]
    /\ calls = <<>>
    /\ rendered = <<>>
    /\ failure = NoFailure

----------------------------------------------------------------------------
(* The inputs get_per_year_change is applied to. *)

DeltaYears == {2020, 2021, 2023}

\* <<Sales, Profit, Order ID>> of a row: an empty line, a loss, a gain.  Sales
\* of 400 then 449 are a change of exactly 12.25 percent, a tie at the second
\* decimal that the float arithmetic resolves.
DeltaCells == {<<0, 0, Null>>, <<400, -2, "CA-1">>, <<449, 3, "CA-2">>}

DeltaCols == {"OrderID", "Sales", "Profit", "year"}

DeltaRow(y, c) ==
    [year |-> y, Sales |-> c[1], Profit |-> c[2], OrderID |-> c[3]]

DeltaRows == {DeltaRow(y, c) : y \in DeltaYears, c \in DeltaCells}

DeltaTables == {[cols |-> DeltaCols, rows |-> rs] : rs \in SeqsUpTo(DeltaRows, MaxDeltaRows)}

\* The three calls load_data makes.
DeltaCalls == {<<"Sales", "sum">>, <<"Profit", "sum">>, <<"OrderID", "count">>}

\* No file at the path.
NoFile == [cols |-> {}, rows |-> <<>>, exists |-> FALSE]

EnrichIdle ==
    /\ orders = <<>>
    /\ people = <<>>
    /\ returned = <<>>
    /\ existing = NoFile
    /\ outFile = NoFile
    /\ enrichPc = "start"

InitDelta ==
    /\ argDf \in DeltaTables
    /\ argCol = <<>>
    /\ grpOut = <<>>
    /\ EnrichIdle
    /\ DashIdle

CallPerYearChange ==
    /\ argCol = <<>>
    /\ \E c \in DeltaCalls :
        /\ argCol' = c
        /\ grpOut' = get_per_year_change(c[1], argDf, c[2])
    /\ UNCHANGED argDf
    /\ UNCHANGED enrichVars
    /\ UNCHANGED dashVars

NextDelta == CallPerYearChange

SpecDelta == InitDelta /\ [][NextDelta]_vars

----------------------------------------------------------------------------
(* What the claims about get_per_year_change speak of, stated from the     *)
(* table alone.                                                            *)

YearsPresent(df) == {df.rows[i].year : i \in DOMAIN df.rows}

RECURSIVE SumOver(_, _, _)
SumOver(I, rows, col) ==
    IF I = {} THEN 0
    ELSE LET i == CHOOSE j \in I : TRUE
         IN  rows[i][col] + SumOver(I \ {i}, rows, col)

\* metric(y): the sum, or the count of non-null values, of col over the rows of year y
YearMetric(df, y, c) ==
    LET I == {i \in DOMAIN df.rows : df.rows[i].year = y}
    IN  IF c[2] = "sum" THEN SumOver(I, df.rows, c[1])
        ELSE Cardinality({i \in I : df.rows[i][c[1]] # Null})

HasPredecessor(df, y) == \E p \in YearsPresent(df) : p < y

\* the immediately preceding year present
Predecessor(df, y) ==
    CHOOSE p \in YearsPresent(df) :
        /\ p < y
        /\ \A q \in YearsPresent(df) : q < y => q <= p

\* s is 100 * n / d written with one decimal place and a trailing '%'; a ratio
\* with a zero base is no number and has no such rendering
IsPercentOf(s, n, d) ==
    /\ d # 0
    /\ \E t \in ((1000 * Abs(n)) \div Abs(d))..((1000 * Abs(n)) \div Abs(d) + 1) :
        /\ 2 * Abs(1000 * Abs(n) - t * Abs(d)) <= Abs(d)
        /\ s = (IF (n < 0) # (d < 0) /\ n # 0 THEN "-" ELSE "")
                  \o ToString(t \div 10) \o "." \o ToString(t % 10) \o "%"

Called == argCol # <<>>

\* C1 as stated: for every year y with a predecessor p, the entry for y is
\* (metric(y) - metric(p)) / metric(p) * 100 with exactly one decimal place and
\* a trailing '%'.
C1_Original ==
    Called =>
        \A y \in YearsPresent(argDf) :
            HasPredecessor(argDf, y) =>
                LET mp == YearMetric(argDf, Predecessor(argDf, y), argCol)
                    my == YearMetric(argDf, y, argCol)
                IN  IsPercentOf(SeriesGet(grpOut, y, "absent"), my - mp, mp)

\* C1 (amended): for every year y with a predecessor p whose metric is not zero,
\* the entry for y is (metric(y) - metric(p)) / metric(p) * 100 with one decimal
\* place and a trailing '%'; the series is indexed by exactly the years present.
C1_PerYearChange ==
    Called =>
        /\ SeriesIndex(grpOut) = YearsPresent(argDf)
        /\ Len(grpOut) = Cardinality(YearsPresent(argDf))
        /\ \A y \in YearsPresent(argDf) :
              (HasPredecessor(argDf, y)
                 /\ YearMetric(argDf, Predecessor(argDf, y), argCol) # 0) =>
                 LET mp == YearMetric(argDf, Predecessor(argDf, y), argCol)
                     my == YearMetric(argDf, y, argCol)
                 IN  IsPercentOf(SeriesGet(grpOut, y, "absent"), my - mp, mp)

\* C1 witness: yearly Sales {2020: 400, 2021: 449} gave {2020: "0.0%", 2021: "12.3%"}
\* (the double computed for the change of 12.25 is 12.250000000000005).
C1_Witness ==
    /\ Called
    /\ argCol = <<"Sales", "sum">>
    /\ YearsPresent(argDf) = {2020, 2021}
    /\ YearMetric(argDf, 2020, argCol) = 400
    /\ YearMetric(argDf, 2021, argCol) = 449
    /\ grpOut = <<[idx |-> 2020, val |-> "0.0%"], [idx |-> 2021, val |-> "12.3%"]>>

\* C2: when the previous year's metric is zero (the ratio has a zero base), the
\* entry is the literal string 'NaN'.
C2_ZeroBaseGivesNaN ==
    Called =>
        \A y \in YearsPresent(argDf) :
            (HasPredecessor(argDf, y)
               /\ YearMetric(argDf, Predecessor(argDf, y), argCol) = 0) =>
               SeriesGet(grpOut, y, "absent") = "NaN"

\* What the code yields on a zero base: 'inf%', '-inf%', or '0.0%' for 0/0, and
\* the string 'NaN' in no entry at all.
ZeroBaseEntries ==
    Called =>
        /\ \A i \in DOMAIN grpOut : grpOut[i].val # "NaN"
        /\ \A y \in YearsPresent(argDf) :
              (HasPredecessor(argDf, y)
                 /\ YearMetric(argDf, Predecessor(argDf, y), argCol) = 0) =>
                 LET my == YearMetric(argDf, y, argCol)
                 IN  SeriesGet(grpOut, y, "absent") =
                        (IF my > 0 THEN "inf%" ELSE IF my < 0 THEN "-inf%" ELSE "0.0%")

\* C3: for a non-empty table and each of the three metrics, the entry of the
\* earliest year present is exactly '0.0%'.
C3_FirstYearZero ==
    (Called /\ argDf.rows # <<>>) =>
        /\ grpOut # <<>>
        /\ grpOut[1].idx = SetMin(YearsPresent(argDf))
        /\ grpOut[1].val = "0.0%"
        /\ \A y \in YearsPresent(argDf) :
              ~HasPredecessor(argDf, y) => SeriesGet(grpOut, y, "absent") = "0.0%"

\* C3 witness: an earliest year whose Profit sum is negative, followed by a later year.
C3_Witness ==
    /\ Called
    /\ argCol = <<"Profit", "sum">>
    /\ Cardinality(YearsPresent(argDf)) >= 2
    /\ YearMetric(argDf, SetMin(YearsPresent(argDf)), argCol) < 0
    /\ grpOut[1].val = "0.0%"

\* An entry whose exact value is a tie at the second decimal is one of the two
\* neighbouring tenths, and the inputs drawn reach both: 400 -> 449 is printed
\* '12.3%' (above the exact 12.25) and 400 -> 849 '112.2%' (the double is the
\* exact 112.25, and the tie goes to the even tenth).
TieUp ==
    /\ Called
    /\ argCol = <<"Sales", "sum">>
    /\ \E i \in 2..Len(grpOut) :
          /\ YearMetric(argDf, grpOut[i - 1].idx, argCol) = 400
          /\ YearMetric(argDf, grpOut[i].idx, argCol) = 449
          /\ grpOut[i].val = "12.3%"

TieEven ==
    /\ Called
    /\ argCol = <<"Sales", "sum">>
    /\ \E i \in 2..Len(grpOut) :
          /\ YearMetric(argDf, grpOut[i - 1].idx, argCol) = 400
          /\ YearMetric(argDf, grpOut[i].idx, argCol) = 849
          /\ grpOut[i].val = "112.2%"

\* A three-year series with a negative entry was computed.
ThreeYears ==
    /\ Called
    /\ Len(grpOut) = 3
    /\ grpOut[3].val = "-10.9%"

----------------------------------------------------------------------------
(* transform.py: the enricher *)

\* dict(data_reg_manager[["Region", "Regional Manager"]].values): a later row of
\* a region replaces an earlier one
mapping_manager(sheet) ==
    [r \in {sheet[i][1] : i \in DOMAIN sheet} |->
        LET last == CHOOSE i \in DOMAIN sheet :
                        /\ sheet[i][1] = r
                        /\ \A j \in DOMAIN sheet : sheet[j][1] = r => j <= i
        IN  sheet[last][2]]

\* A faulty membership test: against the first returned order only.
IsRetentionMutFirst(order_id, list_retentions) ==
    list_retentions # <<>> /\ list_retentions[1] = order_id

\* lambda order_id: order_id in list_retentions
IsRetention(order_id, list_retentions) ==
    \E i \in DOMAIN list_retentions : list_retentions[i] = order_id

\* A lenient lookup: an absent region raises nothing.
LookupRaisesMutDefault(mapping, region) == FALSE

\* lambda region: mapping_manager[region] raises KeyError on an absent region
LookupRaises(mapping, region) == region \notin DOMAIN mapping

\* mapping_manager[region], where it does not raise
Lookup(mapping, region) ==
    IF region \in DOMAIN mapping THEN mapping[region] ELSE "Unknown"

\* data after both derived columns are set, as to_excel writes it (the frame's
\* RangeIndex goes out as the first, unnamed column)
Enriched(data, mapping, list_retentions) ==
    [cols   |-> {"index", "OrderID", "Region", "is_retention", "region_manager"},
     rows   |-> [i \in DOMAIN data |->
                    [index          |-> i - 1,
                     OrderID        |-> data[i].OrderID,
                     Region         |-> data[i].Region,
                     is_retention   |-> IsRetention(data[i].OrderID, list_retentions),
                     region_manager |-> Lookup(mapping, data[i].Region)]],
     exists |-> TRUE]

\* The whole script: the region lookup raises before to_excel is reached.
RunEnricher ==
    /\ enrichPc = "start"
    /\ LET mapping == mapping_manager(people)
       IN  IF \E i \in DOMAIN orders : LookupRaises(mapping, orders[i].Region)
           THEN /\ enrichPc' = "KeyError"
                /\ outFile' = outFile
           ELSE /\ enrichPc' = "done"
                /\ outFile' = Enriched(orders, mapping, returned)
    /\ UNCHANGED <<orders, people, returned, existing>>
    /\ UNCHANGED deltaVars
    /\ UNCHANGED dashVars

OrderIds == {"CA-1", "CA-2"}

Regions == {"West", "East"}

OrderRows == {[OrderID |-> o, Region |-> r] : o \in OrderIds, r \in Regions}

PeopleRows == {<<"West", "Anna">>, <<"West", "Bo">>, <<"East", "Chuck">>}

\* An enriched file left by an earlier run.
OldFile ==
    [cols   |-> {"index", "OrderID", "Region", "is_retention", "region_manager"},
     rows   |-> <<[index |-> 0, OrderID |-> "CA-0", Region |-> "South",
                   is_retention |-> FALSE, region_manager |-> "Cassandra"]>>,
     exists |-> TRUE]

DeltaIdle ==
    /\ argDf = [cols |-> DeltaCols, rows |-> <<>>]
    /\ argCol = <<>>
    /\ grpOut = <<>>

InitEnrich ==
    /\ orders \in SeqsUpTo(OrderRows, MaxOrders)
    /\ people \in SeqsUpTo(PeopleRows, MaxPeople)
    /\ returned \in SeqsUpTo(OrderIds, MaxReturns)
    /\ existing \in {NoFile, OldFile}
    /\ outFile = existing
    /\ enrichPc = "start"
    /\ DeltaIdle
    /\ DashIdle

NextEnrich == RunEnricher

SpecEnrich == InitEnrich /\ [][NextEnrich]_vars

ReturnsSet == {returned[i] : i \in DOMAIN returned}

\* The manager the People sheet gives a region: that of its last row for it.
ManagerOf(region) ==
    CHOOSE m \in {people[i][2] : i \in DOMAIN people} :
        \E i \in DOMAIN people :
            /\ people[i] = <<region, m>>
            /\ \A j \in DOMAIN people : j > i => people[j][1] # region

RegionsKnown == {people[i][1] : i \in DOMAIN people}

SomeRegionAbsent == \E i \in DOMAIN orders : orders[i].Region \notin RegionsKnown

\* C5: in the output table a row has is_retention = TRUE iff its Order ID is in
\* the Returns sheet's Order ID set, and the rows are those of the Orders sheet,
\* in number and in order.
C5_RetentionFlag ==
    enrichPc = "done" =>
        /\ outFile.exists
        /\ Len(outFile.rows) = Len(orders)
        /\ \A i \in DOMAIN orders :
              /\ outFile.rows[i].OrderID = orders[i].OrderID
              /\ outFile.rows[i].Region = orders[i].Region
              /\ outFile.rows[i].is_retention = (orders[i].OrderID \in ReturnsSet)

\* C5 witness: an order with two line items was returned (both flagged), written
\* after a line item of an order that was not, in the Orders sheet's order.
C5_Witness ==
    /\ enrichPc = "done"
    /\ Len(outFile.rows) = 2
    /\ returned = <<"CA-2", "CA-1">>
    /\ outFile.rows[1].OrderID = "CA-1"
    /\ outFile.rows[1].is_retention
    /\ outFile.rows[2].is_retention

\* C6: if the Region of any order row is absent from the People mapping, the run
\* ends in a lookup error and the enriched file is not written (an existing one
\* is left as it was); otherwise every row's region_manager is the mapping's
\* value for its Region.
C6_AbsentRegionFails ==
    enrichPc # "start" =>
        IF SomeRegionAbsent
        THEN /\ enrichPc = "KeyError"
             /\ outFile = existing
        ELSE /\ enrichPc = "done"
             /\ outFile.exists
             /\ Len(outFile.rows) = Len(orders)
             /\ \A i \in DOMAIN orders :
                   outFile.rows[i].region_manager = ManagerOf(orders[i].Region)

\* C6 witness: a run that failed on an absent region with an earlier output in place.
C6_Witness ==
    /\ enrichPc = "KeyError"
    /\ existing = OldFile
    /\ outFile = OldFile
    /\ Len(orders) = 2
    /\ orders[1].Region \in RegionsKnown
    /\ orders[2].Region \notin RegionsKnown

\* A run that wrote the manager of a region listed twice in the People sheet.
C6_WitnessWritten ==
    /\ enrichPc = "done"
    /\ people = <<<<"West", "Anna">>, <<"West", "Bo">>>>
    /\ Len(outFile.rows) = 1
    /\ outFile.rows[1].region_manager = "Bo"

----------------------------------------------------------------------------
(* app.py: the dashboard, one pass of main() per interaction *)

DashYears == {2020, 2021, 2024}

\* <<Category, Region>> of a row of a year: in both palettes or, in 2021, with a
\* category, or a region, that is in neither
DashPlaces(y) ==
    IF y = 2021
    THEN {<<"Furniture", "West">>, <<"Toys", "West">>, <<"Furniture", "North">>}
    ELSE {<<"Furniture", "West">>}

\* <<Sales, Profit>> of a row of a year: get_per_year_change is run over free
\* amounts in SpecDelta; here they vary with the year alone
DashAmount(y) ==
    CASE y = 2020 -> <<100, -2>>
      [] y = 2021 -> <<150, 3>>
      [] OTHER    -> <<120, 0>>

DashCols == {"OrderDate", "Category", "Region", "Sales", "Profit", "OrderID"}

DashRows ==
    UNION {{[OrderDate |-> [y |-> y, m |-> 3], Category |-> p[1], Region |-> p[2],
             Sales |-> DashAmount(y)[1], Profit |-> DashAmount(y)[2],
             OrderID |-> "CA-1"] : p \in DashPlaces(y)} : y \in DashYears}

DashTables == {[cols |-> DashCols, rows |-> rs] : rs \in SeqsUpTo(DashRows, MaxRows)}

Init ==
    /\ storage \in DashTables
    /\ cache = NoEntry
    /\ now = 0
    /\ selected = SelAll
    /\ dfOriginal = <<>>
    /\ dfFiltered = <<>>
    /\ dfEnd = <<>>
    /\ lastLoad = [read |-> FALSE, hadEntry |-> FALSE, age |-> 0, at |-> 0]
    /\ calls = <<>>
    /\ rendered = <<>>
    /\ failure = NoFailure
    /\ DeltaIdle
    /\ EnrichIdle

\* Time passes between interactions.
Tick ==
    /\ now + TTL \div 2 <= MaxTicks * (TTL \div 2)
    /\ now' = now + TTL \div 2
    /\ UNCHANGED <<storage, cache, selected, dfOriginal, dfFiltered, dfEnd, lastLoad,
                   calls, rendered, failure>>
    /\ UNCHANGED deltaVars
    /\ UNCHANGED enrichVars

\* A page load or a filter change: main() from top to bottom.  load_data is
\* answered from the cache or runs; the selection is one of the sidebar's
\* options; the panels follow.
Interact ==
    \E serve \in MayServe(cache, now) :
    \E loaded \in {IF serve THEN cache.value ELSE load_data(storage)} :
    \E selected_year \in {year_list(loaded.df)[i] : i \in DOMAIN year_list(loaded.df)} :
    \E filtered \in {filter_data(loaded.df, selected_year)} :
    \E pass \in {RunPanels(Panels,
                    [df       |-> filtered,
                     calls    |-> (IF serve THEN <<>>
                                   ELSE <<"read_excel", "get_per_year_change",
                                          "get_per_year_change", "get_per_year_change">>)
                                  \o <<"create_sidebar", "filter_data">>,
                     rendered |-> <<>>,
                     failure  |-> NoFailure],
                    loaded, selected_year)} :
        /\ cache' = IF serve THEN cache
                    ELSE [present |-> TRUE, at |-> now, value |-> loaded]
        /\ lastLoad' = [read     |-> ~serve,
                        hadEntry |-> cache.present,
                        age      |-> IF cache.present THEN now - cache.at ELSE 0,
                        at       |-> now]
        /\ selected' = selected_year
        /\ dfFiltered' = filtered
        /\ dfEnd' = pass.df
        /\ dfOriginal' = IF SameFrame(selected_year) THEN pass.df ELSE loaded.df
        /\ calls' = pass.calls
        /\ rendered' = pass.rendered
        /\ failure' = pass.failure
        /\ UNCHANGED <<storage, now>>
        /\ UNCHANGED deltaVars
        /\ UNCHANGED enrichVars

Next == Tick \/ Interact

Spec == Init /\ [][Next]_vars

----------------------------------------------------------------------------
(* What the claims about the dashboard speak of. *)

Interacted == calls # <<>>

\* The base table: the one load_data returned to the last pass.
Base == cache.value.df

Count(r, rows) == Cardinality({i \in DOMAIN rows : rows[i] = r})

RowSet(rows) == {rows[i] : i \in DOMAIN rows}

RenderedPanels == [i \in DOMAIN rendered |-> rendered[i].panel]

RenderedData(p) == (CHOOSE e \in RowSet(rendered) : e.panel = p).data

\* C4: for a selected year the view holds exactly the rows of the base table
\* whose year is that year, no row missing and none extra; for 'All' it is the
\* whole base table; whatever was selected before.
C4_FilterExact ==
    Interacted =>
        IF selected.all THEN dfFiltered = Base
        ELSE /\ dfFiltered.cols = Base.cols
             /\ \A r \in RowSet(Base.rows) \cup RowSet(dfFiltered.rows) :
                   Count(r, dfFiltered.rows) =
                      (IF r.year = selected.year THEN Count(r, Base.rows) ELSE 0)

\* C4 witness: a year selected on a table served from the cache, with a row of
\* that year kept and a row of another year dropped.
C4_Witness ==
    /\ Interacted
    /\ ~lastLoad.read
    /\ selected = SelYear(2021)
    /\ Len(Base.rows) = 2
    /\ Len(dfFiltered.rows) = 1
    /\ dfFiltered.rows[1].year = 2021

HasUnknownCategory(t) ==
    \E i \in DOMAIN t.rows :
        t.rows[i].Category \notin {"Furniture", "Office Supplies", "Technology"}

HasUnknownRegion(t) ==
    \E i \in DOMAIN t.rows : t.rows[i].Region \notin {"West", "East", "Central", "South"}

HasUnknownYear(t) ==
    \E i \in DOMAIN t.rows : t.rows[i].year \notin {2020, 2021, 2022, 2023}

Before(p) == SubSeq(Panels, 1, (CHOOSE i \in DOMAIN Panels : Panels[i] = p) - 1)

\* C7 as stated: a category, a region or a year of the filtered table that its
\* chart's palette lacks ends the pass in a failure at that chart (at the first
\* such chart), with nothing after it rendered.
C7_Original ==
    (Interacted /\ dfFiltered.rows # <<>>) =>
        /\ HasUnknownCategory(dfFiltered) =>
              (failure.at = "category" /\ RenderedPanels = Before("category"))
        /\ (HasUnknownRegion(dfFiltered) /\ ~HasUnknownCategory(dfFiltered)) =>
              (failure.at = "distribution" /\ RenderedPanels = Before("distribution"))
        /\ (HasUnknownYear(dfFiltered) /\ ~HasUnknownCategory(dfFiltered)
               /\ ~HasUnknownRegion(dfFiltered)) =>
              (failure.at = "monthly" /\ RenderedPanels = Before("monthly"))

\* C7 (amended): a category absent from CUSTOM_COLORS ends the pass with a
\* KeyError at the category chart, and otherwise a region absent from the region
\* palette ends it with a KeyError at the sunburst; no panel after the failing
\* one is rendered.  A year absent from the year palette fails nothing: the
\* monthly trend draws its line in '#000000' and the pass goes on to the end.
C7_PaletteFailure ==
    (Interacted /\ dfFiltered.rows # <<>>) =>
        IF HasUnknownCategory(dfFiltered)
        THEN /\ failure = [at |-> "category", error |-> "KeyError"]
             /\ RenderedPanels = <<"kpi">>
        ELSE IF HasUnknownRegion(dfFiltered)
        THEN /\ failure = [at |-> "distribution", error |-> "KeyError"]
             /\ RenderedPanels = <<"kpi", "category">>
        ELSE /\ failure = NoFailure
             /\ RenderedPanels = Panels
             /\ \A i \in DOMAIN dfFiltered.rows :
                   LET y == dfFiltered.rows[i].year
                   IN  RenderedData("monthly")[y].color =
                          (CASE y = 2020 -> "#005C53"
                             [] y = 2021 -> "#9FC131"
                             [] y = 2022 -> "#DBF227"
                             [] y = 2023 -> "#D6FF79"
                             [] OTHER    -> "#000000")

\* C7 witness: a pass over a table with a known category and an unknown region
\* died at the sunburst, after the KPI cards and the category chart.
C7_Witness ==
    /\ Interacted
    /\ HasUnknownRegion(dfFiltered)
    /\ ~HasUnknownCategory(dfFiltered)
    /\ failure = [at |-> "distribution", error |-> "KeyError"]
    /\ RenderedPanels = <<"kpi", "category">>

\* A pass over a table with a year the year palette lacks ran to the end.
C7_WitnessYear ==
    /\ Interacted
    /\ HasUnknownYear(dfFiltered)
    /\ failure = NoFailure
    /\ RenderedPanels = Panels
    /\ RenderedData("monthly")[2024].color = "#000000"

\* C8: every chart function leaves the table it is given unchanged, so each later
\* panel, and the base table under 'All', sees the table as it was.
C8_ChartsArePure ==
    Interacted =>
        /\ \A i \in DOMAIN rendered : rendered[i].left = rendered[i].seen
        /\ \A i \in DOMAIN rendered : rendered[i].seen = dfFiltered
        /\ dfEnd = dfFiltered
        /\ selected.all => dfOriginal = Base

\* What holds instead: only create_monthly_sales_trend changes its table, by the
\* two columns Month and Month_num; the cached table is never touched.
OnlyMonthlyMutates ==
    Interacted =>
        /\ \A i \in DOMAIN rendered :
              IF rendered[i].panel = "monthly"
              THEN /\ rendered[i].left.cols = rendered[i].seen.cols \cup {"Month", "Month_num"}
                   /\ rendered[i].left # rendered[i].seen
              ELSE rendered[i].left = rendered[i].seen
        /\ Base.cols = DashCols \cup {"year"}

CountCalls(f) == Cardinality({i \in DOMAIN calls : calls[i] = f})

PanelCalls == SelectSeq(calls, LAMBDA c : \E i \in DOMAIN Panels : Panels[i] = c)

\* C9 as stated: storage is read only without a cached load or with one at least
\* the TTL old, a pass inside the window does not read it, and every pass runs the
\* aggregations again, the year-over-year series included.
C9_Original ==
    Interacted =>
        /\ lastLoad.read => (~lastLoad.hadEntry \/ lastLoad.age >= TTL)
        /\ (lastLoad.hadEntry /\ lastLoad.age < TTL) => ~lastLoad.read
        /\ CountCalls("filter_data") = 1
        /\ CountCalls("get_per_year_change") = 3

\* C9 (amended): storage is read only without a cached load or with one at least
\* the TTL (3600 s) old; a pass inside the window is served the cached load and
\* reads nothing.  The three year-over-year series are computed with the read
\* and only then: a pass served from the cache reuses them.  The filter and the
\* panels' aggregations run on every pass (the panels up to one that fails).
C9_CacheWindow ==
    Interacted =>
        /\ lastLoad.read => (~lastLoad.hadEntry \/ lastLoad.age >= TTL)
        /\ (lastLoad.hadEntry /\ lastLoad.age < TTL) => ~lastLoad.read
        /\ CountCalls("read_excel") = (IF lastLoad.read THEN 1 ELSE 0)
        /\ CountCalls("get_per_year_change") = (IF lastLoad.read THEN 3 ELSE 0)
        /\ lastLoad.read => cache.at = lastLoad.at
        /\ ~lastLoad.read => cache.at = lastLoad.at - lastLoad.age
        /\ cache.present /\ cache.value = load_data(storage)
        /\ CountCalls("create_sidebar") = 1
        /\ CountCalls("filter_data") = 1
        /\ IF failure = NoFailure THEN PanelCalls = Panels
           ELSE PanelCalls = Append(Before(failure.at), failure.at)

\* C9 witness: a pass half a window after the load was served from the cache: no
\* read, no series computed, the filter and all the panels run.
C9_Witness ==
    /\ Interacted
    /\ lastLoad.hadEntry
    /\ lastLoad.age = TTL \div 2
    /\ ~lastLoad.read
    /\ CountCalls("get_per_year_change") = 0
    /\ CountCalls("filter_data") = 1
    /\ PanelCalls = Panels

\* A pass after the window ended read storage again.
C9_WitnessExpired ==
    /\ Interacted
    /\ lastLoad.hadEntry
    /\ lastLoad.age > TTL
    /\ lastLoad.read

KpiShown == \E i \in DOMAIN rendered : rendered[i].panel = "kpi"

LatestYear(t) == CHOOSE y \in YearsPresent(t) : \A z \in YearsPresent(t) : z <= y

\* The entry of year y in the series of a call, computed over the base table.
BaseEntry(c, y) == SeriesGet(get_per_year_change(c[1], Base, c[2]), y, "absent")

\* C10: for every value the selector offers, the three KPI deltas shown are
\* entries of the series over the full unfiltered table: under 'All' the latest
\* year's, under a year y that year's; the selector's years are the series'
\* index, and the '0%' fallback is never shown.
C10_KpiDeltas ==
    (Interacted /\ KpiShown) =>
        LET y   == IF selected.all THEN LatestYear(Base) ELSE selected.year
            kpi == RenderedData("kpi")
        IN  /\ selected.all \/ selected.year \in YearsPresent(Base)
            /\ SeriesIndex(cache.value.grp_years_sales) = YearsPresent(Base)
            /\ SeriesIndex(cache.value.grp_year_profit) = YearsPresent(Base)
            /\ SeriesIndex(cache.value.grp_year_orders) = YearsPresent(Base)
            /\ kpi.sales_change = BaseEntry(<<"Sales", "sum">>, y)
            /\ kpi.profit_change = BaseEntry(<<"Profit", "sum">>, y)
            /\ kpi.orders_change = BaseEntry(<<"OrderID", "count">>, y)
            /\ "0%" \notin {kpi.sales_change, kpi.profit_change, kpi.orders_change}

\* C10 witness: year 2021 selected on a table of 2020 and 2021: the Sales delta
\* shown is 2021's entry over the whole table, '50.0%', though the filtered table
\* holds 2021 alone.
C10_Witness ==
    /\ Interacted
    /\ KpiShown
    /\ selected = SelYear(2021)
    /\ YearsPresent(Base) = {2020, 2021}
    /\ YearsPresent(dfFiltered) = {2021}
    /\ RenderedData("kpi").sales_change = "50.0%"
    /\ RenderedData("kpi").orders_change = "0.0%"

\* The pass over an empty table died in the KPI cards.
EmptyTableFails ==
    (Interacted /\ Base.rows = <<>>) =>
        (failure = [at |-> "kpi", error |-> "IndexError"] /\ rendered = <<>>)

====
